---- MODULE Spec2Model ----
(***************************************************************************)
(* Model of GA.c: a generational genetic algorithm on fixed-length binary  *)
(* words.  The population lives in one array P.member; crossover works on  *)
(* pointers into that array, so the model keeps the array as a memory and  *)
(* passes indices, and every assignment of the C loops is applied in the   *)
(* order the code applies it.                                              *)
(*                                                                         *)
(* Indices are 0-based as in the source.  The #define'd sizes are scaled   *)
(* down; POPULATION_SIZE and BOTTLENECK are chosen per run from small      *)
(* ranges so that the odd, the oversized and the overlapping               *)
(* configurations all occur.                                               *)
(***************************************************************************)
EXTENDS Integers, Sequences, FiniteSets, TLC

VARIABLES
    POPULATION_SIZE,  \* #define POPULATION_SIZE of this build
    BOTTLENECK,       \* #define BOTTLENECK of this build
    pc,               \* position in main
    P,                \* P.member: index -> organism; Uninit before rand_population
    g,                \* generation counter of main
    seeded,           \* srand has been called
    drawn,            \* rand has been called
    sex_candidates,   \* local array of the latest next_generation call
    cutting_points,   \* cut point drawn for each pair of the latest call
    P_before,         \* P.member when the latest next_generation call began
    checks,           \* number of evaluations of the while condition so far
    last_best,        \* fitness of member 0 at the previous evaluation, -1 if none
    initial_pool,     \* gene positions carrying a 1 right after rand_population
    report            \* what main printed at the end: <<population, g>>

vars == <<POPULATION_SIZE, BOTTLENECK, pc, P, g, seeded, drawn, sex_candidates,
          cutting_points, P_before, checks, last_best, initial_pool, report>>

---------------------------------------------------------------------------
(* Sizes *)

GENOME_LENGTH == 2

MAX_GENERATIONS == 2

MaxPopulation == 4

MaxBottleneck == 4

Genes == 0 .. (GENOME_LENGTH - 1)

\* typedef int ORGANISM[GENOME_LENGTH], holding rand() % 2 values
ORGANISM == [Genes -> {0, 1}]

\* struct population with n members
POPULATION(n) == [0 .. (n - 1) -> ORGANISM]

\* storage that has not been written yet
Uninit == << >>

---------------------------------------------------------------------------
(* fitness: the float f / GENOME_LENGTH is represented by its numerator f, *)
(* in units of 1/GENOME_LENGTH.  The division is monotone and injective on *)
(* 0 .. GENOME_LENGTH, and f / GENOME_LENGTH = 1 exactly when              *)
(* f = GENOME_LENGTH, so comparisons of the floats are comparisons of f.   *)

RECURSIVE fitness_loop(_, _)
fitness_loop(Org, j) ==
    IF j >= GENOME_LENGTH THEN 0 ELSE Org[j] + fitness_loop(Org, j + 1)

fitness(Org) == fitness_loop(Org, 0)

\* the float 1 in the units of fitness
One == GENOME_LENGTH

---------------------------------------------------------------------------
(* crossover: offspring are written into the memory gene by gene, each     *)
(* read taking the value the memory holds at that moment.                  *)

\* one assignment (*dst)[j] = (*src)[j]
CopyGene(M, dst, src, j) == [M EXCEPT ![dst][j] = M[src][j]]

\* body of the first loop (j < cutting_point)
HeadBody(M, parent1, parent2, offspring1, offspring2, j) ==
    CopyGene(CopyGene(M, offspring1, parent1, j), offspring2, parent2, j)

\* a tail that copies both offspring from the same parent
TailBody_sameparent(M, parent1, parent2, offspring1, offspring2, j) ==
    CopyGene(CopyGene(M, offspring1, parent2, j), offspring2, parent2, j)

\* a tail that reads the parents' genes from the mirrored position
TailBody_mirrored(M, parent1, parent2, offspring1, offspring2, j) ==
    LET k  == GENOME_LENGTH - 1 - j
        M1 == [M EXCEPT ![offspring1][j] = M[parent2][k]]
    IN  [M1 EXCEPT ![offspring2][j] = M1[parent1][k]]

\* body of the second loop (j >= cutting_point)
TailBody(M, parent1, parent2, offspring1, offspring2, j) ==
    CopyGene(CopyGene(M, offspring1, parent2, j), offspring2, parent1, j)

RECURSIVE crossover_loop(_, _, _, _, _, _, _)
crossover_loop(M, parent1, parent2, offspring1, offspring2, cutting_point, j) ==
    IF j >= GENOME_LENGTH THEN M
    ELSE crossover_loop(
             IF j < cutting_point
             THEN HeadBody(M, parent1, parent2, offspring1, offspring2, j)
             ELSE TailBody(M, parent1, parent2, offspring1, offspring2, j),
             parent1, parent2, offspring1, offspring2, cutting_point, j + 1)

crossover(M, parent1, parent2, offspring1, offspring2, cutting_point) ==
    crossover_loop(M, parent1, parent2, offspring1, offspring2, cutting_point, 0)

---------------------------------------------------------------------------
(* Sorting *)

\* a comparator that orders lower fitness first
comp_ascending(a, b) ==
    LET diff == fitness(a) - fitness(b)
    IN  IF diff = 0 THEN 0 ELSE IF diff < 0 THEN -1 ELSE 1

comp(a, b) ==
    LET diff == fitness(a) - fitness(b)
    IN  IF diff = 0 THEN 0 ELSE IF diff < 0 THEN 1 ELSE -1

\* qsort leaves the members in an order in which no member compares after a
\* later one; elements that compare equal end in any order
qsort(M, pop_size) ==
    { Q \in { [k \in 0 .. (pop_size - 1) |-> M[perm[k]]] :
                  perm \in Permutations(0 .. (pop_size - 1)) } :
        \A i, k \in 0 .. (pop_size - 1) : i < k => comp(Q[i], Q[k]) <= 0 }

sort_P_by_fitness(M, pop_size) == qsort(M, pop_size)

---------------------------------------------------------------------------
(* shuffle_array *)

\* a swap that forgets the temporary
Swap_notemp(a, i, j) == [a EXCEPT ![j] = a[i]]

\* temp = a[j]; a[j] = a[i]; a[i] = temp
Swap(a, i, j) == [a EXCEPT ![j] = a[i], ![i] = a[j]]

\* the draws of one call: for each i in n-1 .. 1 a value rand() % (i+1)
ShuffleDraws(n) == { d \in [1 .. (n - 1) -> 0 .. (n - 1)] : \A i \in 1 .. (n - 1) : d[i] <= i }

RECURSIVE shuffle_loop(_, _, _)
shuffle_loop(a, i, d) ==
    IF i <= 0 THEN a ELSE shuffle_loop(Swap(a, i, d[i]), i - 1, d)

shuffle_array(a, n, d) == shuffle_loop(a, n - 1, d)

---------------------------------------------------------------------------
(* next_generation *)

\* offspring slots counted from the top of the array
Offspring1Slot_fromtop(i) == i * 2

Offspring1Slot(i) == POPULATION_SIZE - i * 2 - 2

\* second offspring slot counted from the top of the array
Offspring2Slot_fromtop(i) == (i * 2) + 1

Offspring2Slot(i) == POPULATION_SIZE - (i * 2) - 1

\* the cut points of one call: rand() % GENOME_LENGTH for each pair
CutDraws == [0 .. ((BOTTLENECK \div 2) - 1) -> 0 .. (GENOME_LENGTH - 1)]

RECURSIVE mating_loop(_, _, _, _)
mating_loop(M, sc, cuts, i) ==
    IF i >= BOTTLENECK \div 2 THEN M
    ELSE mating_loop(
             crossover(M, sc[i * 2], sc[(i * 2) + 1],
                       Offspring1Slot(i), Offspring2Slot(i), cuts[i]),
             sc, cuts, i + 1)

\* every access of next_generation stays inside P.member
InBounds == BOTTLENECK <= POPULATION_SIZE

---------------------------------------------------------------------------
(* main *)

\* a parity test that rejects only when both sizes are odd
OddConfiguration_both == POPULATION_SIZE % 2 # 0 /\ BOTTLENECK % 2 # 0

\* POPULATION_SIZE % 2 || BOTTLENECK % 2
OddConfiguration == POPULATION_SIZE % 2 # 0 \/ BOTTLENECK % 2 # 0

\* a loop test that allows one generation too many
LoopCondition_onemore(M, gen) == fitness(M[0]) # One /\ gen <= MAX_GENERATIONS + 1

\* fitness(P.member) != 1 && g <= MAX_GENERATIONS
LoopCondition(M, gen) == fitness(M[0]) # One /\ gen <= MAX_GENERATIONS

\* gene positions at which some member carries a 1
GenePool(M) == { j \in Genes : \E k \in DOMAIN M : M[k][j] = 1 }

Init ==
    /\ POPULATION_SIZE \in 1 .. MaxPopulation
    /\ BOTTLENECK \in 0 .. MaxBottleneck
    /\ pc = "main"
    /\ P = Uninit
    /\ g = 0
    /\ seeded = FALSE
    /\ drawn = FALSE
    /\ sex_candidates = Uninit
    /\ cutting_points = Uninit
    /\ P_before = Uninit
    /\ checks = 0
    /\ last_best = -1
    /\ initial_pool = {}
    /\ report = << >>

\* the parity test at the head of main
ConfigCheck ==
    /\ pc = "main"
    /\ pc' = IF OddConfiguration THEN "error" ELSE "rand_population"
    /\ UNCHANGED <<POPULATION_SIZE, BOTTLENECK, P, g, seeded, drawn, sex_candidates,
                   cutting_points, P_before, checks, last_best, initial_pool, report>>

\* rand_population(&P, POPULATION_SIZE, GENOME_LENGTH)
RandPopulation ==
    /\ pc = "rand_population"
    /\ seeded' = TRUE
    /\ drawn' = TRUE
    /\ P' \in POPULATION(POPULATION_SIZE)
    /\ initial_pool' = GenePool(P')
    /\ pc' = "sort_init"
    /\ UNCHANGED <<POPULATION_SIZE, BOTTLENECK, g, sex_candidates, cutting_points,
                   P_before, checks, last_best, report>>

\* the sort after initialization, then int g = 1
SortInit ==
    /\ pc = "sort_init"
    /\ P' \in sort_P_by_fitness(P, POPULATION_SIZE)
    /\ g' = 1
    /\ pc' = "while"
    /\ UNCHANGED <<POPULATION_SIZE, BOTTLENECK, seeded, drawn, sex_candidates,
                   cutting_points, P_before, checks, last_best, initial_pool, report>>

\* one evaluation of the while condition
While ==
    /\ pc = "while"
    /\ checks' = checks + 1
    /\ last_best' = fitness(P[0])
    /\ pc' = IF LoopCondition(P, g) THEN "next_generation" ELSE "print"
    /\ UNCHANGED <<POPULATION_SIZE, BOTTLENECK, P, g, seeded, drawn, sex_candidates,
                   cutting_points, P_before, initial_pool, report>>

\* next_generation(&P) with every index inside P.member
NextGenerationDefined ==
    /\ pc = "next_generation"
    /\ InBounds
    /\ \E d \in ShuffleDraws(BOTTLENECK), cuts \in CutDraws :
         LET sc == shuffle_array([i \in 0 .. (BOTTLENECK - 1) |-> i], BOTTLENECK, d)
         IN  /\ sex_candidates' = sc
             /\ cutting_points' = cuts
             /\ P' = mating_loop(P, sc, cuts, 0)
    /\ P_before' = P
    /\ pc' = "sort_loop"
    /\ UNCHANGED <<POPULATION_SIZE, BOTTLENECK, g, seeded, drawn, checks, last_best,
                   initial_pool, report>>

\* next_generation(&P) with BOTTLENECK > POPULATION_SIZE: parents are read past
\* the end of P.member and offspring are written before its start.  The
\* behaviour is undefined: the process may stop, or go on with any contents;
\* nothing is known of the locals, which are not recorded.
NextGenerationUndefined ==
    /\ pc = "next_generation"
    /\ ~InBounds
    /\ sex_candidates' = Uninit
    /\ cutting_points' = Uninit
    /\ P' \in POPULATION(POPULATION_SIZE)
    /\ P_before' = P
    /\ pc' \in {"crashed", "sort_loop"}
    /\ UNCHANGED <<POPULATION_SIZE, BOTTLENECK, g, seeded, drawn, checks, last_best,
                   initial_pool, report>>

\* the sort inside the loop, then g++; the locals of next_generation are gone
SortLoop ==
    /\ pc = "sort_loop"
    /\ P' \in sort_P_by_fitness(P, POPULATION_SIZE)
    /\ g' = g + 1
    /\ sex_candidates' = Uninit
    /\ cutting_points' = Uninit
    /\ P_before' = Uninit
    /\ pc' = "while"
    /\ UNCHANGED <<POPULATION_SIZE, BOTTLENECK, seeded, drawn, checks, last_best,
                   initial_pool, report>>

\* print_population and the "Generations" line
PrintPopulation ==
    /\ pc = "print"
    /\ report' = <<P, g>>
    /\ pc' = "done"
    /\ UNCHANGED <<POPULATION_SIZE, BOTTLENECK, P, g, seeded, drawn, sex_candidates,
                   cutting_points, P_before, checks, last_best, initial_pool>>

Next ==
    \/ ConfigCheck
    \/ RandPopulation
    \/ SortInit
    \/ While
    \/ NextGenerationDefined
    \/ NextGenerationUndefined
    \/ SortLoop
    \/ PrintPopulation

Spec == Init /\ [][Next]_vars

---------------------------------------------------------------------------
(* crossover on its own: two parents, two separate offspring buffers and   *)
(* any cut point 0 .. GENOME_LENGTH, as the function's interface allows.   *)

InitCrossover ==
    /\ POPULATION_SIZE = 4
    /\ BOTTLENECK = 0
    /\ pc = "crossover"
    /\ P \in POPULATION(4)
    /\ cutting_points \in [{0} -> 0 .. GENOME_LENGTH]
    /\ g = 0
    /\ seeded = FALSE
    /\ drawn = FALSE
    /\ sex_candidates = Uninit
    /\ P_before = Uninit
    /\ checks = 0
    /\ last_best = -1
    /\ initial_pool = {}
    /\ report = << >>

\* crossover(&member[0], &member[1], &member[2], &member[3], cutting_point)
CrossoverCall ==
    /\ pc = "crossover"
    /\ P' = crossover(P, 0, 1, 2, 3, cutting_points[0])
    /\ P_before' = P
    /\ pc' = "crossover_ret"
    /\ UNCHANGED <<POPULATION_SIZE, BOTTLENECK, g, seeded, drawn, sex_candidates,
                   cutting_points, checks, last_best, initial_pool, report>>

NextCrossover == CrossoverCall

SpecCrossover == InitCrossover /\ [][NextCrossover]_vars

---------------------------------------------------------------------------
(* Properties *)

\* both sizes even and the bottleneck no larger than the population
ValidConfiguration ==
    /\ POPULATION_SIZE % 2 = 0
    /\ BOTTLENECK % 2 = 0
    /\ BOTTLENECK <= POPULATION_SIZE

\* p1[0:c] ++ p2[c:]
Recombine(p1, p2, c) == [j \in Genes |-> IF j < c THEN p1[j] ELSE p2[j]]

SomeOptimal(M) == \E k \in DOMAIN M : fitness(M[k]) = One

\* C1: the loop condition is evaluated at most MAX_GENERATIONS + 1 times, the
\* run goes on into a generation step only after a check at which no organism
\* had fitness 1.0 and which was not check number MAX_GENERATIONS + 1, and
\* every check and the final print can take their step.
C1_Termination ==
    ValidConfiguration =>
        /\ checks <= MAX_GENERATIONS + 1
        /\ pc \in {"while", "print"} => ENABLED Next
        /\ pc = "next_generation" => (checks <= MAX_GENERATIONS /\ ~SomeOptimal(P))
        /\ pc \in {"print", "done"} =>
               (SomeOptimal(P) \/ checks = MAX_GENERATIONS + 1)

\* C1 witness: the loop stopped early, after at least one generation step,
\* because an organism reached fitness 1.0
C1_Witness ==
    /\ ValidConfiguration
    /\ pc = "print"
    /\ checks > 1
    /\ checks <= MAX_GENERATIONS
    /\ fitness(P[0]) = One

\* C2: after next_generation returns, every position below
\* POPULATION_SIZE - BOTTLENECK holds the organism it held before the call.
C2_ReplacementScope ==
    (ValidConfiguration /\ pc = "sort_loop") =>
        \A k \in 0 .. (POPULATION_SIZE - BOTTLENECK - 1) : P[k] = P_before[k]

\* C2 witness: a generation step with elites that did change the bottom
C2_Witness ==
    /\ ValidConfiguration
    /\ pc = "sort_loop"
    /\ 0 < BOTTLENECK
    /\ BOTTLENECK < POPULATION_SIZE
    /\ P # P_before

\* C3: with separate offspring buffers and any cut point c in
\* 0 .. GENOME_LENGTH, offspring1 = p1[0:c] ++ p2[c:] and
\* offspring2 = p2[0:c] ++ p1[c:]; c = 0 gives (p2, p1), c = GENOME_LENGTH
\* gives (p1, p2); the parents are unchanged.
C3_Crossover ==
    pc = "crossover_ret" =>
        LET p1 == P_before[0]
            p2 == P_before[1]
            c  == cutting_points[0]
        IN  /\ P[2] = Recombine(p1, p2, c)
            /\ P[3] = Recombine(p2, p1, c)
            /\ c = 0 => (P[2] = p2 /\ P[3] = p1)
            /\ c = GENOME_LENGTH => (P[2] = p1 /\ P[3] = p2)
            /\ P[0] = p1
            /\ P[1] = p2

\* C3 witness: a cut strictly inside the genome that produced offspring
\* different from both parents
C3_Witness ==
    /\ pc = "crossover_ret"
    /\ 0 < cutting_points[0]
    /\ cutting_points[0] < GENOME_LENGTH
    /\ P[2] \notin {P[0], P[1]}
    /\ P[3] \notin {P[0], P[1]}

\* C4: at every evaluation of the loop condition and at the start of every
\* generation step the population is in non-increasing order of fitness.
C4_Sorted ==
    (ValidConfiguration /\ pc \in {"while", "next_generation"}) =>
        \A i \in 0 .. (POPULATION_SIZE - 2) : fitness(P[i]) >= fitness(P[i + 1])

\* C4 witness: an evaluation after a generation step, with organisms of
\* different fitness
C4_Witness ==
    /\ ValidConfiguration
    /\ pc = "while"
    /\ g > 1
    /\ BOTTLENECK > 0
    /\ fitness(P[0]) > fitness(P[POPULATION_SIZE - 1])

\* C5: the mating pairs (sex_candidates[2i], sex_candidates[2i+1]) partition
\* 0 .. BOTTLENECK-1: every index is in exactly one pair, no other index occurs.
C5_PairsPartition ==
    (ValidConfiguration /\ pc = "sort_loop") =>
        /\ DOMAIN sex_candidates = 0 .. (BOTTLENECK - 1)
        /\ \A i \in 0 .. (BOTTLENECK - 1) : sex_candidates[i] \in 0 .. (BOTTLENECK - 1)
        /\ \A k \in 0 .. (BOTTLENECK - 1) :
               Cardinality({ i \in 0 .. (BOTTLENECK - 1) : sex_candidates[i] = k }) = 1

\* C5 witness: a shuffle of four candidates that moved every one of them
C5_Witness ==
    /\ ValidConfiguration
    /\ pc = "sort_loop"
    /\ BOTTLENECK = 4
    /\ \A i \in 0 .. 3 : sex_candidates[i] # i

\* C6: with both sizes even and BOTTLENECK > POPULATION_SIZE the run does not
\* start: no population is initialized, no generation step runs, nothing is
\* reported.
C6_OversizedRejected ==
    (POPULATION_SIZE % 2 = 0 /\ BOTTLENECK % 2 = 0 /\ BOTTLENECK > POPULATION_SIZE) =>
        /\ pc \in {"main", "error"}
        /\ P = Uninit
        /\ report = << >>

\* C7: with an odd POPULATION_SIZE or BOTTLENECK the run is at its start or in
\* the error outcome, the random source is neither seeded nor drawn from, the
\* population is not initialized and nothing is reported.
C7_OddRejected ==
    (POPULATION_SIZE % 2 # 0 \/ BOTTLENECK % 2 # 0) =>
        /\ pc \in {"main", "error"}
        /\ ~seeded
        /\ ~drawn
        /\ P = Uninit
        /\ g = 0
        /\ checks = 0
        /\ report = << >>

\* C7 witness: the error outcome with an odd population and an even bottleneck
C7_Witness ==
    /\ pc = "error"
    /\ POPULATION_SIZE % 2 # 0
    /\ BOTTLENECK % 2 = 0

\* C8: in every valid configuration, after next_generation returns, the slots
\* POPULATION_SIZE-1-2i and POPULATION_SIZE-2-2i hold the two single-point
\* crossover offspring of the organisms that were at the pair's indices when
\* the step began.
C8_PureOffspring ==
    (ValidConfiguration /\ pc = "sort_loop") =>
        \A i \in 0 .. ((BOTTLENECK \div 2) - 1) :
            LET p1 == P_before[sex_candidates[2 * i]]
                p2 == P_before[sex_candidates[(2 * i) + 1]]
                c  == cutting_points[i]
            IN  {P[POPULATION_SIZE - 1 - (2 * i)], P[POPULATION_SIZE - 2 - (2 * i)]}
                    = {Recombine(p1, p2, c), Recombine(p2, p1, c)}

\* C9: with BOTTLENECK < POPULATION_SIZE the fitness of member 0 at an
\* evaluation of the loop condition is no lower than at the previous one.
C9_BestNeverDecreases ==
    (ValidConfiguration /\ BOTTLENECK < POPULATION_SIZE
        /\ pc = "while" /\ last_best # -1) =>
        fitness(P[0]) >= last_best

\* C9 witness: an evaluation at which the best fitness has risen
C9_Witness ==
    /\ ValidConfiguration
    /\ BOTTLENECK < POPULATION_SIZE
    /\ pc = "while"
    /\ last_best # -1
    /\ fitness(P[0]) > last_best

\* C10: the gene positions carrying a 1 stay within those of the initial
\* population; if some position was 0 everywhere after initialization no
\* organism has fitness 1.0 and the reported counter is MAX_GENERATIONS + 1.
C10_NoNewGenes ==
    ValidConfiguration =>
        /\ GenePool(P) \subseteq initial_pool
        /\ (pc \notin {"main", "rand_population"} /\ initial_pool # Genes) =>
               ~SomeOptimal(P)
        /\ (pc = "done" /\ initial_pool # Genes) => report[2] = MAX_GENERATIONS + 1

\* C10 witness: a finished run whose initial population lacked a gene
C10_Witness ==
    /\ ValidConfiguration
    /\ pc = "done"
    /\ BOTTLENECK > 0
    /\ initial_pool # Genes
    /\ initial_pool # {}
    /\ report[2] = MAX_GENERATIONS + 1

====
